---------------------------- MODULE Spec2Model ----------------------------
(* A model of pyfinding: the grid distance oracle                          *)
(* (find_path_len_with_a_star), the approximate tour solver                *)
(* (traverse_graph_with_nn) with its Memo, the exact tour solver           *)
(* (held_karp_algorithm_for_shortest_distance) and the aggregator          *)
(* (get_expected_length).                                                  *)
(*                                                                         *)
(* Cells are <<row, column>> pairs counted from 0 as in the source; the    *)
(* board is a sequence of rows, each a sequence of the characters          *)
(* ".", "#" and "*", so the source's board[r][c] is board[r + 1][c + 1].   *)
EXTENDS Integers, Sequences, FiniteSets, TLC

VARIABLES
    board,          \* the board: list of rows of ".", "#", "*"
    a, b,           \* find_path_len_with_a_star: its arguments
    open, close,    \* find_path_len_with_a_star: the two lists
    n_movements,    \* find_path_len_with_a_star: cell -> recorded distance
    status,         \* find_path_len_with_a_star: running / returned / raised
    ret,            \* find_path_len_with_a_star: the value returned
    K,              \* get_expected_length: its argument K
    coins,          \* get_expected_length: the list of Coin objects
    step_distance,  \* Coin.step_distance of each coin, by the coin's index i
    memo,           \* get_expected_length: the Memo object
    combination,    \* get_expected_length: the combination being solved
    idx,            \* get_expected_length: the start choice being tried
    best_len,       \* get_expected_length: the running min over start choices
    path_lenghts,   \* get_expected_length: the list of tour lengths
    pc,             \* get_expected_length: where the call stands
    result,         \* get_expected_length: the value returned
    t_start,        \* a tour solver call: the start coin
    t_hk,           \* held_karp_algorithm_for_shortest_distance: its value
    t_nn,           \* traverse_graph_with_nn: its arguments and its value
    t_pc            \* which tour solver calls have been made

oracle_vars == <<a, b, open, close, n_movements, status, ret>>
run_vars == <<K, memo, combination, idx, best_len, path_lenghts, pc, result>>
tour_vars == <<t_start, t_hk, t_nn, t_pc>>
vars == <<board, oracle_vars, coins, step_distance, run_vars, tour_vars>>

-----------------------------------------------------------------------------
(* Grid helpers.                                                           *)

\* The four offsets of get_movements, in the order the source tries them.
Offsets == << <<1, 0>>, <<0, 1>>, <<-1, 0>>, <<0, -1>> >>

\* board[r][c] of the source, for a cell inside the board.
CellAt(bd, cell) == bd[cell[1] + 1][cell[2] + 1]

\* The new cell is kept unless its row is out of bounds, or its column is out
\* of bounds or the cell is a wall.
IsValidMovement(cell, bd) ==
    /\ ~(cell[1] < 0 \/ cell[1] >= Len(bd))
    /\ ~(cell[2] < 0 \/ cell[2] >= Len(bd[1]) \/ CellAt(bd, cell) = "#")

get_movements(position, bd) ==
    SelectSeq([k \in 1..4 |-> <<position[1] + Offsets[k][1],
                                position[2] + Offsets[k][2]>>],
              LAMBDA cell : IsValidMovement(cell, bd))

\* The source returns the square root of this sum as a float and uses it only
\* as a sort key. The square root is strictly increasing and exact enough to
\* keep distinct small integers apart, so the key is represented by the sum
\* under the root: same order, same ties.
get_euclidean_distance(p, q) ==
    (p[1] - q[1]) * (p[1] - q[1]) + (p[2] - q[2]) * (p[2] - q[2])

\* sorted(movements, key=...): Python's sort is stable, so an element goes
\* after every element whose key is less than or equal to its own.
RECURSIVE SortedFrom(_, _, _, _)
SortedFrom(done, rest, k, goal) ==
    IF k > Len(rest) THEN done
    ELSE LET x == rest[k]
             n == Cardinality({j \in 1..Len(done) :
                      get_euclidean_distance(goal, done[j])
                          <= get_euclidean_distance(goal, x)})
         IN SortedFrom(SubSeq(done, 1, n) \o <<x>> \o SubSeq(done, n + 1, Len(done)),
                       rest, k + 1, goal)

sorted(movements, goal) == SortedFrom(<<>>, movements, 1, goal)

InSeq(x, s) == \E k \in 1..Len(s) : s[k] = x

-----------------------------------------------------------------------------
(* find_path_len_with_a_star.                                              *)

AStarStart(src) ==
    [n_movements |-> (src :> 0), open |-> <<src>>, close |-> <<>>,
     status |-> "running", ret |-> 0]

\* The same test without `movement in open`.
IsSkippedWhenClosed(movement, cl, op) == InSeq(movement, cl)

\* if movement in close or movement in open: continue
IsSkipped(movement, cl, op) == InSeq(movement, cl) \/ InSeq(movement, op)

\* The for loop over the sorted movements: record the distance of each, and
\* push it unless it is skipped.
RECURSIVE AddMovements(_, _, _, _)
AddMovements(st, movements, k, next_move_distance) ==
    IF k > Len(movements) THEN st
    ELSE LET movement == movements[k]
             nm == (movement :> next_move_distance) @@ st.n_movements
         IN AddMovements(
                [st EXCEPT !.n_movements = nm,
                           !.open = IF IsSkipped(movement, st.close, st.open)
                                    THEN @ ELSE Append(@, movement)],
                movements, k + 1, next_move_distance)

\* The same without the cost of the move.
NextMoveDistanceFree(recorded, node) == recorded[node]

\* next_move_distance = n_movements[node] + 1
NextMoveDistance(recorded, node) == recorded[node] + 1

\* One evaluation of the while condition and, when it holds, of the loop body.
AStarStep(st, goal, bd) ==
    IF st.open = <<>> THEN [st EXCEPT !.status = "NoPath"]
    ELSE LET node == st.open[Len(st.open)]
             next_move_distance == NextMoveDistance(st.n_movements, node)
             popped == [st EXCEPT !.open = SubSeq(@, 1, Len(@) - 1),
                                  !.close = Append(@, node)]
             movements == sorted(get_movements(node, bd), goal)
         IN IF movements = <<>>
            THEN [popped EXCEPT !.status = "IndexError"]
            ELSE IF goal = movements[1]
            THEN [popped EXCEPT !.status = "returned", !.ret = next_move_distance]
            ELSE AddMovements(popped, movements, 1, next_move_distance)

RECURSIVE AStarRun(_, _, _)
AStarRun(st, goal, bd) ==
    IF st.status # "running" THEN st ELSE AStarRun(AStarStep(st, goal, bd), goal, bd)

\* The outcome of a call: status "returned" with its value in ret, or the
\* exception raised ("NoPath" is ValueError("No path!")).
find_path_len_with_a_star(src, goal, bd) == AStarRun(AStarStart(src), goal, bd)

-----------------------------------------------------------------------------
(* Coin and Memo.                                                          *)

\* float("inf"). Sums are taken with Add, which keeps inf + x = inf, so that
\* comparisons and equalities are those of the floats.
Inf == 1000000

Add(x, y) == IF x >= Inf \/ y >= Inf THEN Inf ELSE x + y

\* Coin(coords, i); its step_distance dictionary is step_distance[i].
Coin(coords, i) == [coords |-> coords, i |-> i]

\* Coin.__eq__ compares the coordinates only.
CoinEq(x, y) == x.coords = y.coords

\* Coin.get_step_distance
get_step_distance(coin, coords) == step_distance[coin.i][coords]

RECURSIVE Pow2(_)
Pow2(n) == IF n = 0 THEN 1 ELSE 2 * Pow2(n - 1)

RECURSIVE SumPow2(_)
SumPow2(bits) ==
    IF bits = {} THEN 0
    ELSE LET k == CHOOSE x \in bits : TRUE IN Pow2(k) + SumPow2(bits \ {k})

\* memo=None
NoMemo == [is_none |-> TRUE, total |-> 0, base |-> 0, memo |-> <<>>]

\* Memo(total)
Memo(total) == [is_none |-> FALSE, total |-> total, base |-> Pow2(total), memo |-> <<>>]

\* `if memo:` A Memo object defines neither __bool__ nor __len__, so it is
\* true whatever it holds; None is false.
Truthy(m) == ~m.is_none

\* Memo._get_state: the bit of every remaining coin or-ed into base. Or-ing a
\* bit twice sets it once, so the state is base plus the sum over the set of
\* the remaining coins' indices.
Memo_get_state(m, coin, remaining) ==
    <<coin.i, m.base + SumPow2({remaining[k].i : k \in 1..Len(remaining)})>>

\* Memo.get: None (hit FALSE) when the state is not a key.
Memo_get(m, coin, remaining) ==
    LET state == Memo_get_state(m, coin, remaining)
    IN IF state \in DOMAIN m.memo
       THEN [hit |-> TRUE, value |-> m.memo[state]]
       ELSE [hit |-> FALSE, value |-> 0]

\* Memo.set
Memo_set(m, coin, remaining, distance) ==
    LET state == Memo_get_state(m, coin, remaining)
    IN [m EXCEPT !.memo = (state :> distance) @@ @]

-----------------------------------------------------------------------------
(* traverse_graph_with_nn. A call returns [ret, memo]: its value and the   *)
(* Memo object as the call leaves it.                                      *)

\* remaining[:idx] + remaining[idx + 1:], and the list after pop(idx); k is
\* the position counted from 1.
RemoveAt(s, k) == SubSeq(s, 1, k - 1) \o SubSeq(s, k + 1, Len(s))

\* The same without the distance walked before the hit.
MemoHitValueAlone(distance, memoized) == memoized

\* return distance + memoized
MemoHitValue(distance, memoized) == Add(distance, memoized)

\* if node_distance >= best_distance: continue
IsPruned(node_distance, best_distance) == node_distance >= best_distance

\* if depth > 1 and len(remaining) > 1
Recurses(depth, remaining) == depth > 1 /\ Len(remaining) > 1

RECURSIVE traverse_graph_with_nn(_, _, _, _, _)
RECURSIVE TraverseWhile(_, _, _, _, _, _, _)
RECURSIVE NearestNeighbour(_, _, _, _, _, _)

\* The for loop that finds the nearest neighbour, from position k on; nn holds
\* min_idx (counted from 1), min_distance, min_step_distance and the memo.
NearestNeighbour(current, remaining, depth, best_distance, k, nn) ==
    IF k > Len(remaining) THEN nn
    ELSE LET node == remaining[k]
             node_distance == get_step_distance(node, current.coords)
         IN IF IsPruned(node_distance, best_distance)
            THEN NearestNeighbour(current, remaining, depth, best_distance, k + 1, nn)
            ELSE LET sub == IF Recurses(depth, remaining)
                            THEN traverse_graph_with_nn(node, RemoveAt(remaining, k),
                                     nn.memo, depth - 1, nn.min_step_distance)
                            ELSE [ret |-> 0, memo |-> nn.memo]
                     step == Add(node_distance, sub.ret)
                 IN NearestNeighbour(current, remaining, depth, best_distance, k + 1,
                        IF step < nn.min_step_distance
                        THEN [min_idx |-> k, min_distance |-> node_distance,
                              min_step_distance |-> step, memo |-> sub.memo]
                        ELSE [nn EXCEPT !.memo = sub.memo])

\* The while loop, from its condition on.
TraverseWhile(current, remaining, m, depth, best_distance, distance, path) ==
    IF remaining = <<>>
    THEN [ret |-> distance,
          memo |-> IF Truthy(m) THEN Memo_set(m, path[1], Tail(path), distance) ELSE m]
    ELSE LET memoized == IF Truthy(m) THEN Memo_get(m, current, remaining)
                         ELSE [hit |-> FALSE, value |-> 0]
         IN IF memoized.hit
            THEN [ret |-> MemoHitValue(distance, memoized.value), memo |-> m]
            ELSE LET nn == NearestNeighbour(current, remaining, depth, best_distance, 1,
                               [min_idx |-> 1, min_distance |-> Inf,
                                min_step_distance |-> Inf, memo |-> m])
                     chosen == remaining[nn.min_idx]
                 IN TraverseWhile(chosen, RemoveAt(remaining, nn.min_idx), nn.memo,
                        depth, best_distance, Add(distance, nn.min_distance),
                        IF Truthy(m) THEN Append(path, chosen) ELSE path)

traverse_graph_with_nn(current, remaining, m, depth, best_distance) ==
    TraverseWhile(current, remaining, m, depth, best_distance, 0, <<current>>)

-----------------------------------------------------------------------------
(* held_karp_algorithm_for_shortest_distance and the brute-force baseline. *)

MinOf(S) == CHOOSE x \in S : \A y \in S : x <= y

\* transition_matrix[x][y], for list positions counted from 0.
Transition(cs, x, y) ==
    IF ~CoinEq(cs[x + 1], cs[y + 1])
    THEN get_step_distance(cs[x + 1], cs[y + 1].coords) ELSE 0

\* final_state of a subset of list positions: base_state with their bits set.
SubsetState(base_state, subset) == base_state + SumPow2(subset)

\* The same with every coin at distance 0 from the start.
HeldKarpBaseAtStart(start, cs) ==
    LET base_state == Pow2(Len(cs))
    IN [key \in {<<SubsetState(base_state, {k}), k>> : k \in 0..(Len(cs) - 1)} |-> 0]

\* The first loop: the distance from the start to each coin.
HeldKarpBase(start, cs) ==
    LET base_state == Pow2(Len(cs))
    IN [key \in {<<SubsetState(base_state, {k}), k>> : k \in 0..(Len(cs) - 1)} |->
            get_step_distance(cs[key[2] + 1], start.coords)]

\* One round of the outer loop: every subset of n_coins positions, every last
\* coin of it. subset_state clears the bit of the last coin.
HeldKarpRound(distance_by_state, cs, n_coins) ==
    LET base_state == Pow2(Len(cs))
        subsets == {sub \in SUBSET (0..(Len(cs) - 1)) : Cardinality(sub) = n_coins}
        entries == {<<sub, k>> : sub \in subsets, k \in 0..(Len(cs) - 1)}
        wanted == {e \in entries : e[2] \in e[1]}
        value(sub, coin_idx) ==
            LET final_state == SubsetState(base_state, sub)
                subset_state == final_state - Pow2(coin_idx)
            IN MinOf({distance_by_state[<<subset_state, terminal_idx>>]
                          + Transition(cs, terminal_idx, coin_idx) :
                      terminal_idx \in sub \ {coin_idx}})
    IN [key \in {<<SubsetState(base_state, e[1]), e[2]>> : e \in wanted} |->
            LET sub == CHOOSE sb \in subsets : SubsetState(base_state, sb) = key[1]
            IN value(sub, key[2])] @@ distance_by_state

\* range(2, len(coins) + 1)
HeldKarpLastRound(cs) == Len(cs)

RECURSIVE HeldKarpRounds(_, _, _)
HeldKarpRounds(distance_by_state, cs, n_coins) ==
    IF n_coins > HeldKarpLastRound(cs) THEN distance_by_state
    ELSE HeldKarpRounds(HeldKarpRound(distance_by_state, cs, n_coins), cs, n_coins + 1)

\* final_state = (1 << (len(coins) + 1)) - 1
HeldKarpFinalState(cs) == Pow2(Len(cs) + 1) - 1

held_karp_algorithm_for_shortest_distance(start, cs) ==
    LET distance_by_state == HeldKarpRounds(HeldKarpBase(start, cs), cs, 2)
    IN MinOf({distance_by_state[<<HeldKarpFinalState(cs), k>>] : k \in 0..(Len(cs) - 1)})

\* The least sum of step distances over the orders in which the coins of the
\* set rest can follow the coin cur: every permutation of rest is one choice
\* of a first coin followed by a permutation of the others.
RECURSIVE LeastPathFrom(_, _)
LeastPathFrom(cur, rest) ==
    IF rest = {} THEN 0
    ELSE MinOf({get_step_distance(cur, nxt.coords) + LeastPathFrom(nxt, rest \ {nxt}) :
                nxt \in rest})

SeqToSet(s) == {s[k] : k \in 1..Len(s)}

\* brute_force_find_graph_subset_distance: every permutation of the tuple, the
\* sum of the distances between neighbours in it, the least of these sums.
brute_force_find_graph_subset_distance(cs) ==
    IF cs = <<>> THEN 0
    ELSE MinOf({LeastPathFrom(first, SeqToSet(cs) \ {first}) : first \in SeqToSet(cs)})

-----------------------------------------------------------------------------
(* get_expected_length and set_coin_distances.                             *)

\* The cells of a board in the order of the two enumerate loops.
RECURSIVE ScanOrder(_, _, _)
ScanOrder(bd, r, c) ==
    IF r >= Len(bd) THEN <<>>
    ELSE IF c >= Len(bd[1]) THEN ScanOrder(bd, r + 1, 0)
    ELSE <<<<r, c>>>> \o ScanOrder(bd, r, c + 1)

\* coins.append(Coin((row_idx, column_idx), len(coins))) for every "*".
ScanCoins(bd) ==
    LET found == SelectSeq(ScanOrder(bd, 0, 0), LAMBDA cell : CellAt(bd, cell) = "*")
    IN [k \in 1..Len(found) |-> Coin(found[k], k - 1)]

\* The pairs of list positions (from 0) that set_coin_distances visits, in the
\* order of its two loops.
RECURSIVE PairsFrom(_, _, _)
PairsFrom(n, x, y) ==
    IF x >= n THEN <<>>
    ELSE IF y >= n THEN PairsFrom(n, x + 1, x + 2)
    ELSE <<<<x, y>>>> \o PairsFrom(n, x, y + 1)

CoinPairs(n) == PairsFrom(n, 0, 1)

\* Coin.set_step_distance on the dictionary of one coin.
set_step_distance(dict, coords, distance) == (coords :> distance) @@ dict

\* The body of the inner loop of set_coin_distances once the oracle returned.
CacheDistance(sd, coin_a, coin_b, distance) ==
    [sd EXCEPT ![coin_a.i] = set_step_distance(@, coin_b.coords, distance),
               ![coin_b.i] = set_step_distance(@, coin_a.coords, distance)]

\* set_coin_distances from the k-th pair of its loops on: [status, sd], where
\* status is "returned" with every distance cached in sd, or the exception
\* that the oracle raised at the first pair it failed on.
RECURSIVE SetDistancesFrom(_, _, _, _)
SetDistancesFrom(cs, bd, sd, k) ==
    IF k > Len(CoinPairs(Len(cs))) THEN [status |-> "returned", sd |-> sd]
    ELSE LET p == CoinPairs(Len(cs))[k]
             coin_a == cs[p[1] + 1]
             coin_b == cs[p[2] + 1]
             distance == find_path_len_with_a_star(coin_a.coords, coin_b.coords, bd)
         IN IF distance.status # "returned"
            THEN [status |-> distance.status, sd |-> sd]
            ELSE SetDistancesFrom(cs, bd, CacheDistance(sd, coin_a, coin_b, distance.ret),
                                  k + 1)

set_coin_distances(cs, bd) ==
    SetDistancesFrom(cs, bd, [i \in 0..(Len(cs) - 1) |-> <<>>], 1)

\* itertools.combinations(coins, K), as positions in coins counted from 0: the
\* first combination, and the one after a given one (<<>> after the last).
FirstCombination(k) == [j \in 1..k |-> j - 1]

NextCombination(comb, n) ==
    LET k == Len(comb)
        movable == {j \in 1..k : comb[j] # (j - 1) + n - k}
    IN IF movable = {} THEN <<>>
       ELSE LET j == CHOOSE x \in movable : \A y \in movable : y <= x
            IN [x \in 1..k |-> IF x < j THEN comb[x] ELSE comb[j] + 1 + (x - j)]

\* combination[idx], and list(combination[:idx]) + list(combination[idx + 1:])
StartOf(cs, comb, i) == cs[comb[i + 1] + 1]
OthersOf(cs, comb, i) ==
    LET rest == RemoveAt(comb, i + 1) IN [j \in 1..Len(rest) |-> cs[rest[j] + 1]]

\* depth=2 of the call in get_expected_length
LookaheadDepth == 2

\* The call of traverse_graph_with_nn that get_expected_length makes for start
\* choice i of a combination, on the Memo m.
TourFrom(cs, comb, i, m) ==
    traverse_graph_with_nn(StartOf(cs, comb, i), OthersOf(cs, comb, i), m,
                           LookaheadDepth, Inf)

Min2(x, y) == IF x <= y THEN x ELSE y

RECURSIVE SumSeq(_)
SumSeq(s) == IF s = <<>> THEN 0 ELSE Add(s[1], SumSeq(Tail(s)))

\* sum(path_lenghts) / len(path_lenghts), kept as the fraction it is.
Mean(lengths) == [sum |-> SumSeq(lengths), len |-> Len(lengths)]

-----------------------------------------------------------------------------
(* The values of the variables of a part of the program that a              *)
(* specification does not run.                                             *)

OracleIdle ==
    /\ a = <<0, 0>>
    /\ b = <<0, 0>>
    /\ open = <<>>
    /\ close = <<>>
    /\ n_movements = <<>>
    /\ status = "idle"
    /\ ret = 0

RunIdle ==
    /\ K = 0
    /\ memo = NoMemo
    /\ combination = <<>>
    /\ idx = 0
    /\ best_len = Inf
    /\ path_lenghts = <<>>
    /\ pc = "idle"
    /\ result = Mean(<<>>)

TourIdle ==
    /\ t_start = Coin(<<0, 0>>, 0)
    /\ t_hk = 0
    /\ t_nn = [depth |-> 0, with_memo |-> FALSE, ret |-> 0, memo |-> NoMemo]
    /\ t_pc = "idle"

-----------------------------------------------------------------------------
(* The specification of get_expected_length: one step for                 *)
(* set_coin_distances, then one step per call of traverse_graph_with_nn.   *)

\* Boards without walls have at most this many rows and columns.
OpenRows == 3
OpenCols == 3

\* A single-row or single-column board has at most this many cells.
LineLen == 6

BoardOf(rows, cols, walls, stars) ==
    [r \in 1..rows |-> [c \in 1..cols |->
        IF <<r - 1, c - 1>> \in stars THEN "*"
        ELSE IF <<r - 1, c - 1>> \in walls THEN "#" ELSE "."]]

\* The boards of a shape with at least one coin and at most max_walls walls.
Boards(rows, cols, max_walls) ==
    LET cells == {<<r, c>> : r \in 0..(rows - 1), c \in 0..(cols - 1)}
    IN UNION { { BoardOf(rows, cols, walls, stars) :
                     stars \in (SUBSET (cells \ walls)) \ {{}} } :
               walls \in {w \in SUBSET cells : Cardinality(w) <= max_walls} }

\* Single-row and single-column boards, walls anywhere.
LineBoards ==
    UNION {Boards(1, len, len) \cup Boards(len, 1, len) : len \in 1..LineLen}

\* Boards of coins and free cells only.
OpenBoards ==
    UNION {Boards(rows, cols, 0) : rows \in 1..OpenRows, cols \in 1..OpenCols}

\* The state of get_expected_length(board, K) once the board is scanned.
RunStart ==
    /\ coins = ScanCoins(board)
    /\ K \in 1..Len(coins)
    /\ step_distance = [i \in 0..(Len(coins) - 1) |-> <<>>]
    /\ memo = NoMemo
    /\ combination = <<>>
    /\ idx = 0
    /\ best_len = Inf
    /\ path_lenghts = <<>>
    /\ pc = "distances"
    /\ result = Mean(<<>>)
    /\ OracleIdle
    /\ TourIdle

RunInit ==
    /\ board \in OpenBoards \cup LineBoards
    /\ RunStart

LineInit ==
    /\ board \in LineBoards
    /\ RunStart

\* set_coin_distances(coins, board) returns; then memo = Memo(len(coins)),
\* path_lenghts = [] and the first combination.
SetCoinDistances ==
    /\ pc = "distances"
    /\ LET out == set_coin_distances(coins, board)
       IN /\ out.status = "returned"
          /\ step_distance' = out.sd
    /\ memo' = Memo(Len(coins))
    /\ path_lenghts' = <<>>
    /\ combination' = FirstCombination(K)
    /\ idx' = 0
    /\ best_len' = Inf
    /\ pc' = "combinations"
    /\ UNCHANGED <<board, oracle_vars, coins, tour_vars, K, result>>

\* ValueError("No path!") leaves the oracle; nothing in set_coin_distances or
\* get_expected_length catches it.
RaiseNoPath ==
    /\ pc = "distances"
    /\ LET out == set_coin_distances(coins, board)
       IN /\ out.status = "NoPath"
          /\ step_distance' = out.sd
    /\ pc' = "NoPath"
    /\ UNCHANGED <<board, oracle_vars, coins, tour_vars, K,
                   memo, combination, idx, best_len, path_lenghts, result>>

\* IndexError (movements[0] of an empty list) leaves the oracle; nothing
\* catches it either.
RaiseIndexError ==
    /\ pc = "distances"
    /\ LET out == set_coin_distances(coins, board)
       IN /\ out.status = "IndexError"
          /\ step_distance' = out.sd
    /\ pc' = "IndexError"
    /\ UNCHANGED <<board, oracle_vars, coins, tour_vars, K,
                   memo, combination, idx, best_len, path_lenghts, result>>

\* One call of traverse_graph_with_nn inside min(...), not the last of its
\* combination.
TraverseStart ==
    /\ pc = "combinations"
    /\ combination # <<>>
    /\ idx < K - 1
    /\ LET out == TourFrom(coins, combination, idx, memo)
       IN /\ memo' = out.memo
          /\ best_len' = Min2(best_len, out.ret)
    /\ idx' = idx + 1
    /\ UNCHANGED <<board, oracle_vars, coins, step_distance, tour_vars, K,
                   combination, path_lenghts, pc, result>>

\* The last call of a combination: min(...) is complete and is appended, and
\* the loop moves to the next combination.
TraverseLastStart ==
    /\ pc = "combinations"
    /\ combination # <<>>
    /\ idx = K - 1
    /\ LET out == TourFrom(coins, combination, idx, memo)
       IN /\ memo' = out.memo
          /\ path_lenghts' = Append(path_lenghts, Min2(best_len, out.ret))
    /\ best_len' = Inf
    /\ idx' = 0
    /\ combination' = NextCombination(combination, Len(coins))
    /\ UNCHANGED <<board, oracle_vars, coins, step_distance, tour_vars, K,
                   pc, result>>

\* return sum(path_lenghts) / len(path_lenghts)
ReturnExpected ==
    /\ pc = "combinations"
    /\ combination = <<>>
    /\ result' = Mean(path_lenghts)
    /\ pc' = "done"
    /\ UNCHANGED <<board, oracle_vars, coins, step_distance, tour_vars, K,
                   memo, combination, idx, best_len, path_lenghts>>

RunNext ==
    \/ SetCoinDistances
    \/ RaiseNoPath
    \/ RaiseIndexError
    \/ TraverseStart
    \/ TraverseLastStart
    \/ ReturnExpected

\* get_expected_length on every board without walls within OpenRows and
\* OpenCols, and on every single-row and single-column board within LineLen.
SpecRun == RunInit /\ [][RunNext]_vars

\* get_expected_length on every single-row and single-column board within
\* LineLen.
SpecLine == LineInit /\ [][RunNext]_vars

-----------------------------------------------------------------------------
(* The oracle's specification: one call of find_path_len_with_a_star, one  *)
(* loop iteration per step, on every board within the bounds and every     *)
(* ordered pair of distinct coin cells of it.                              *)

\* Boards of this specification have at most this many rows and columns.
OracleRows == 2
OracleCols == 3

Cells(bd) == {<<r, c>> : r \in 0..(Len(bd) - 1), c \in 0..(Len(bd[1]) - 1)}

\* Boards of a given shape with exactly two coins.
TwoCoinBoards(rows, cols) ==
    LET cells == {<<r, c>> : r \in 0..(rows - 1), c \in 0..(cols - 1)}
    IN UNION { { [r \in 1..rows |-> [c \in 1..cols |->
                     IF <<r - 1, c - 1>> \in two THEN "*"
                     ELSE IF <<r - 1, c - 1>> \in walls THEN "#" ELSE "."]] :
                 walls \in SUBSET (cells \ two) } :
               two \in {s \in SUBSET cells : Cardinality(s) = 2} }

CoinCells(bd) == {cell \in Cells(bd) : CellAt(bd, cell) = "*"}

OracleInit ==
    /\ \E rows \in 1..OracleRows, cols \in 1..OracleCols :
           board \in TwoCoinBoards(rows, cols)
    /\ a \in CoinCells(board)
    /\ b \in CoinCells(board) \ {a}
    /\ n_movements = AStarStart(a).n_movements
    /\ open = AStarStart(a).open
    /\ close = AStarStart(a).close
    /\ status = "running"
    /\ ret = 0
    /\ coins = ScanCoins(board)
    /\ step_distance = [i \in 0..(Len(coins) - 1) |-> <<>>]
    /\ RunIdle
    /\ TourIdle

OracleState ==
    [n_movements |-> n_movements, open |-> open, close |-> close,
     status |-> status, ret |-> ret]

\* The state after one more evaluation of the while condition and loop body.
OracleStepped == AStarStep(OracleState, b, board)

OracleTakes(st) ==
    /\ n_movements' = st.n_movements
    /\ open' = st.open
    /\ close' = st.close
    /\ status' = st.status
    /\ ret' = st.ret
    /\ UNCHANGED <<board, a, b, coins, step_distance, run_vars, tour_vars>>

\* A loop iteration that neither returns nor raises.
AStarExplore ==
    /\ status = "running"
    /\ OracleStepped.status = "running"
    /\ OracleTakes(OracleStepped)

\* return next_move_distance
AStarReturn ==
    /\ status = "running"
    /\ OracleStepped.status = "returned"
    /\ OracleTakes(OracleStepped)

\* movements[0] of an empty list: IndexError
AStarIndexError ==
    /\ status = "running"
    /\ OracleStepped.status = "IndexError"
    /\ OracleTakes(OracleStepped)

\* raise ValueError("No path!")
AStarNoPath ==
    /\ status = "running"
    /\ OracleStepped.status = "NoPath"
    /\ OracleTakes(OracleStepped)

OracleNext == AStarExplore \/ AStarReturn \/ AStarIndexError \/ AStarNoPath

SpecOracle == OracleInit /\ [][OracleNext]_vars


-----------------------------------------------------------------------------
(* The specification of the two tour solvers as functions of their         *)
(* arguments: coins with symmetric cached distances, a start coin among    *)
(* them, and the others as the list to visit.                              *)

\* A tour solver call has at most this many coins, the start included.
TourCoins == 5
\* A cached distance is 1 or TourDist: a long way need not be shorter than a
\* detour of two short ones.
TourDist == 3
\* traverse_graph_with_nn is called with depth 1..TourDepth; its default
\* depth is 3.
TourDepth == 3

\* The coins of a tour solver call: coin i stands on cell <<0, i>>.
TourCoinList(n) == [k \in 1..n |-> Coin(<<0, k - 1>>, k - 1)]

\* What set_coin_distances leaves in the coins when the oracle returned
\* dist[<<i, j>>] for the pair i < j.
SymmetricDistances(n, dist) ==
    [i \in 0..(n - 1) |->
        [coords \in {<<0, j>> : j \in (0..(n - 1)) \ {i}} |->
            IF i < coords[2] THEN dist[<<i, coords[2]>>] ELSE dist[<<coords[2], i>>]]]

TourInit ==
    /\ board = <<>>
    /\ \E n \in 2..TourCoins :
          /\ coins = TourCoinList(n)
          /\ \E dist \in [{<<i, j>> \in (0..(n - 1)) \X (0..(n - 1)) : i < j} -> {1, TourDist}] :
                 step_distance = SymmetricDistances(n, dist)
    /\ t_start \in SeqToSet(coins)
    /\ t_hk = 0
    /\ t_nn = [depth |-> 0, with_memo |-> FALSE, ret |-> 0, memo |-> NoMemo]
    /\ t_pc = "input"
    /\ OracleIdle
    /\ RunIdle

\* The coins to visit: all but the start, in list order.
TourRemaining == SelectSeq(coins, LAMBDA coin : ~CoinEq(coin, t_start))

\* held_karp_algorithm_for_shortest_distance(start, coins)
CallHeldKarp ==
    /\ t_pc = "input"
    /\ t_hk' = held_karp_algorithm_for_shortest_distance(t_start, TourRemaining)
    /\ t_pc' = "exact"
    /\ UNCHANGED <<board, oracle_vars, coins, step_distance, run_vars, t_start, t_nn>>

\* traverse_graph_with_nn(start, coins, memo=None, depth=depth)
CallTraverse ==
    /\ t_pc = "exact"
    /\ \E depth \in 1..TourDepth :
           LET out == traverse_graph_with_nn(t_start, TourRemaining, NoMemo, depth, Inf)
           IN t_nn' = [depth |-> depth, with_memo |-> FALSE, ret |-> out.ret,
                       memo |-> out.memo]
    /\ t_pc' = "approx"
    /\ UNCHANGED <<board, oracle_vars, coins, step_distance, run_vars, t_start, t_hk>>

\* traverse_graph_with_nn(start, coins, memo=Memo(len(coins)), depth=depth)
CallTraverseWithMemo ==
    /\ t_pc = "exact"
    /\ \E depth \in 1..TourDepth :
           LET out == traverse_graph_with_nn(t_start, TourRemaining,
                                             Memo(Len(coins)), depth, Inf)
           IN t_nn' = [depth |-> depth, with_memo |-> TRUE, ret |-> out.ret,
                       memo |-> out.memo]
    /\ t_pc' = "approx"
    /\ UNCHANGED <<board, oracle_vars, coins, step_distance, run_vars, t_start, t_hk>>

TourNext == CallHeldKarp \/ CallTraverse \/ CallTraverseWithMemo

SpecTour == TourInit /\ [][TourNext]_vars

-----------------------------------------------------------------------------
(* Reference definitions the claims are stated against.                    *)

Neighbours(cell, bd) ==
    {q \in Cells(bd) : /\ CellAt(bd, q) # "#"
                       /\ \E k \in 1..4 : q = <<cell[1] + Offsets[k][1],
                                                cell[2] + Offsets[k][2]>>}

\* Breadth-first search by levels: the number of moves of a shortest path from
\* the frontier's origin to goal, or -1 when goal cannot be reached.
RECURSIVE BfsLevels(_, _, _, _, _)
BfsLevels(frontier, seen, d, goal, bd) ==
    IF goal \in frontier THEN d
    ELSE IF frontier = {} THEN -1
    ELSE LET nxt == (UNION {Neighbours(cell, bd) : cell \in frontier}) \ seen
         IN BfsLevels(nxt, seen \cup nxt, d + 1, goal, bd)

ShortestSteps(src, goal, bd) == BfsLevels({src}, {src}, 0, goal, bd)

Reachable(src, goal, bd) == ShortestSteps(src, goal, bd) >= 0

NoDuplicates(s) == \A i, j \in 1..Len(s) : i # j => s[i] # s[j]

-----------------------------------------------------------------------------
(* Claims about the distance oracle, under SpecOracle.                     *)

\* Each cell is in open at most once and in close at most once, no cell is in
\* both, and both hold cells of the board only.
OracleListsDisjoint ==
    /\ NoDuplicates(open)
    /\ NoDuplicates(close)
    /\ \A i \in 1..Len(open) : ~InSeq(open[i], close)
    /\ \A i \in 1..Len(open) : open[i] \in Cells(board)
    /\ \A i \in 1..Len(close) : close[i] \in Cells(board)

\* What holds of the lists in every state of a call: no cell twice, never
\* more cells than the board has, and a call that has not ended can take its
\* next step, the cell it pops having a recorded distance.
OracleListsBounded ==
    /\ OracleListsDisjoint
    /\ Len(open) + Len(close) <= Cardinality(Cells(board))
    /\ (status = "running" /\ open # <<>>) => open[Len(open)] \in DOMAIN n_movements

\* C10: the distance oracle always terminates: each cell is pushed onto open
\* at most once and popped at most once, a cell is never in open and close at
\* the same time, and every step either moves the popped cell from open to
\* close, which holds at most the cells of the board, or ends the call with
\* the frontier exhausted; a call that has ended takes no further step.
C10_OracleTerminates ==
    /\ []OracleListsBounded
    /\ [][/\ status = "running"
          /\ IF open = <<>>
             THEN status' = "NoPath"
             ELSE /\ close' = Append(close, open[Len(open)])
                  /\ ~InSeq(open[Len(open)], open')]_vars

\* C10 witness: a call that ended after it closed the four cells of a square
\* of the board, where a cell has two neighbours that can each push it.
C10_Witness ==
    /\ status \in {"returned", "NoPath"}
    /\ \E cell \in Cells(board) :
           \A dr \in 0..1, dc \in 0..1 :
               InSeq(<<cell[1] + dr, cell[2] + dc>>, close)

\* C7: the oracle returns the shortest step count (the breadth-first-search
\* number of moves) whenever the goal can be reached.
C7_ShortestStepCount ==
    (status # "running" /\ Reachable(a, b, board))
        => (status = "returned" /\ ret = ShortestSteps(a, b, board))

\* C5: the oracle gives the same step count in both directions for mutually
\* reachable coin cells.
C5_DistanceSymmetry ==
    (status # "running" /\ Reachable(a, b, board))
        => LET back == find_path_len_with_a_star(b, a, board)
           IN /\ status = "returned"
              /\ back.status = "returned"
              /\ back.ret = ret

-----------------------------------------------------------------------------
(* Claims about the tour solvers, under SpecTour.                          *)

\* The sum of the step distances along the list, from the coin cur.
RECURSIVE PathAlong(_, _)
PathAlong(cur, list) ==
    IF list = <<>> THEN 0
    ELSE get_step_distance(cur, list[1].coords) + PathAlong(list[1], Tail(list))

\* C3: held_karp_algorithm_for_shortest_distance(start, coins) equals the
\* least, over all orders of the coins, of the length of the open path that
\* begins at start and visits every coin once; the brute-force baseline, which
\* is free to begin anywhere among start and the coins, is never above it.
C3_HeldKarpExact ==
    t_pc # "input" =>
        /\ t_hk = LeastPathFrom(t_start, SeqToSet(TourRemaining))
        /\ brute_force_find_graph_subset_distance(coins) <= t_hk

\* C3 witness: four coins to visit, and visiting them in list order is not
\* the shortest path.
C3_Witness ==
    /\ t_pc = "exact"
    /\ Len(TourRemaining) = 4
    /\ t_hk < PathAlong(t_start, TourRemaining)

\* C2: the value of traverse_graph_with_nn(start, coins), at any depth, with
\* or without a memo, is never less than the value of
\* held_karp_algorithm_for_shortest_distance(start, coins).
C2_UpperBound ==
    t_pc = "approx" => t_nn.ret >= t_hk

\* C2 witness: a call with a memo and a lookahead of two over four coins
\* whose value is finite and above the optimum.
C2_Witness ==
    /\ t_pc = "approx"
    /\ Len(TourRemaining) = 4
    /\ t_nn.depth = LookaheadDepth
    /\ t_nn.with_memo
    /\ t_nn.ret > t_hk
    /\ t_nn.ret < Inf

-----------------------------------------------------------------------------
(* Claims about get_expected_length, under SpecRun and SpecLine.           *)

\* The two coins of a board with exactly two coins stand in one row or one
\* column with nothing but free cells between them.
Between(bd) ==
    LET p == ScanCoins(bd)[1].coords
        q == ScanCoins(bd)[2].coords
    IN {cell \in Cells(bd) :
           \/ cell[1] = p[1] /\ cell[1] = q[1] /\ p[2] < cell[2] /\ cell[2] < q[2]
           \/ cell[2] = p[2] /\ cell[2] = q[2] /\ p[1] < cell[1] /\ cell[1] < q[1]}

IsCorridor(bd) ==
    /\ Len(ScanCoins(bd)) = 2
    /\ LET p == ScanCoins(bd)[1].coords
           q == ScanCoins(bd)[2].coords
       IN p[1] = q[1] \/ p[2] = q[2]
    /\ \A cell \in Between(bd) : CellAt(bd, cell) = "."

C4_UnreachableIsNoPath ==
    (\E p, q \in CoinCells(board) : ~Reachable(p, q, board))
        => pc \in {"distances", "NoPath"}

\* C1: a call of traverse_graph_with_nn on the Memo, in whatever state the run
\* has brought it to, returns what the same call returns with memo=None.
C1_MemoTransparency ==
    (pc = "combinations" /\ combination # <<>>)
        => TourFrom(coins, combination, idx, memo).ret
               = TourFrom(coins, combination, idx, NoMemo).ret

\* The k-th combination of itertools.combinations(coins, K), k from 1.
RECURSIVE NthCombination(_)
NthCombination(k) ==
    IF k = 1 THEN FirstCombination(K)
    ELSE NextCombination(NthCombination(k - 1), Len(coins))

\* The tour length of a combination when every start choice is solved with a
\* Memo of its own.
FreshTourLength(comb) ==
    MinOf({TourFrom(coins, comb, i, Memo(Len(coins))).ret : i \in 0..(K - 1)})

\* C8: the tour length appended for a combination, and the value returned at
\* the end, are those obtained when each start choice of each combination is
\* solved with a fresh Memo.
C8_SharedMemoSound ==
    /\ (pc = "combinations" /\ idx = 0 /\ path_lenghts # <<>>)
           => path_lenghts[Len(path_lenghts)]
                  = FreshTourLength(NthCombination(Len(path_lenghts)))
    /\ pc = "done"
           => result = Mean([k \in 1..Len(path_lenghts) |->
                                FreshTourLength(NthCombination(k))])

\* The coins whose bits are set in a Memo state.
CoinsOfState(m, state) ==
    {coins[k + 1] : k \in {j \in 0..(Len(coins) - 1) :
                              ((state - m.base) \div Pow2(j)) % 2 = 1}}

\* v is the sum of the cached distances along some order of the coins of rest,
\* from the coin cur.
RECURSIVE IsPathSum(_, _, _)
IsPathSum(cur, rest, v) ==
    IF rest = {} THEN v = 0
    ELSE \E nxt \in rest :
             /\ get_step_distance(cur, nxt.coords) <= v
             /\ IsPathSum(nxt, rest \ {nxt}, v - get_step_distance(cur, nxt.coords))

\* C9: every memo entry (c, S) -> v holds a finite v that is the sum of the
\* cached distances along some order of all the coins of S, from c.
C9_MemoEntriesResolved ==
    \A key \in DOMAIN memo.memo :
        /\ memo.memo[key] < Inf
        /\ IsPathSum(coins[key[1] + 1], CoinsOfState(memo, key[2]), memo.memo[key])

=============================================================================
